---- MODULE Spec2Model ----
(***************************************************************************)
(* A model of the object cache of cache.go: a map from key to list         *)
(* element (items), a doubly linked list of pairs in touch order (list),   *)
(* an incrementally tracked count (itemCount) and a configuration, behind  *)
(* one sync.RWMutex.                                                       *)
(*                                                                         *)
(* Spec     : Set, Get and Del run one after the other, each call whole.   *)
(* SpecConc : NumThreads goroutines run Set, Get and Del step by step, a   *)
(*            step being a lock operation or one read or write of the      *)
(*            shared state.                                                *)
(***************************************************************************)
EXTENDS Integers, Sequences, FiniteSets, TLC

\* ------------------------------------------------------------------ bounds
NumKeys == 3
NumValues == 2
MaxTTL == 2
MaxTime == 2
MaxLimit == 2
MaxExpiration == 1
NumThreads == 2
NumConcKeys == 2

Keys == 1..NumKeys
Values == 1..NumValues
\* the durations a caller passes to Set; 0 asks for the configured default
TTLs == 0..MaxTTL

\* the keys used where one Set is watched and where goroutines run concurrently,
\* and the values and durations of the concurrent goroutines
ConcKeys == 1..NumConcKeys
ConcValues == {1}
ConcTTLs == {0, 1}

\* Go's nil: no element, no object
Nil == 0

VARIABLES
    items,      \* c.items: key -> handle of its list element
    list,       \* c.list: front-to-back sequence of elements, each a handle and a pair
    itemCount,  \* c.itemCount
    config,     \* c.config: MaxEntryLimit and Expiration
    now,        \* the clock read by time.Now()
    crashed,    \* a call panicked
    last,       \* the call that ran last, with its arguments and its result
    watch,      \* a Set call chosen to be followed: its key and now + ttl
    touch,      \* the keys given to Set, in the order of each key's latest Set
    mu,         \* c.mu: the goroutine holding it for writing, those holding it for reading
    pc,         \* each goroutine's position in the call it is running
    loc         \* each goroutine's arguments and local variables

vars == <<items, list, itemCount, config, now, crashed, last, watch, touch, touch, mu, pc, loc>>

\* the goroutines of the concurrent specification
Threads == 1..NumThreads

\* ------------------------------------------------------------ the structure

\* the cache's three pieces of mutable state, as one value
Cache == [items |-> items, list |-> list, itemCount |-> itemCount]

\* pair{Object, expire, key} held by a list element with handle id
Elem(id, x, e, k) == [id |-> id, Object |-> x, expire |-> e, key |-> k]

\* delete(m, k)
MapDelete(m, k) == [j \in DOMAIN m \ {k} |-> m[j]]

\* m[k] = id
MapPut(m, k, id) == [j \in DOMAIN m \cup {k} |-> IF j = k THEN id ELSE m[j]]

\* list.Remove(e): unlinks e when it is an element of the list, else nothing
ListRemove(l, id) == SelectSeq(l, LAMBDA n : n.id # id)

\* a list.MoveToBack that moves the element to the front
ListMoveToFront(l, id) ==
    LET hit == SelectSeq(l, LAMBDA n : n.id = id)
    IN  IF hit = <<>> THEN l ELSE hit \o SelectSeq(l, LAMBDA n : n.id # id)

\* list.MoveToBack(e): nothing when e is not in the list or is already last
ListMoveToBack(l, id) ==
    LET hit == SelectSeq(l, LAMBDA n : n.id = id)
    IN  IF hit = <<>> THEN l ELSE ListRemove(l, id) \o hit

\* the handles in use; a new element never shares its handle with one
RangeOf(m) == {m[j] : j \in DOMAIN m}
IdsOf(l) == {l[i].id : i \in DOMAIN l}
NewId(used) == CHOOSE i \in 1..(Cardinality(used) + 1) :
                   /\ i \notin used
                   /\ \A j \in 1..(i - 1) : j \in used

\* the elements goroutines hold in a local variable
HeldIds == {loc[t].elem : t \in Threads} \ {Nil}

\* the element a handle refers to (elem.Value); the handle must be in the list
ElemOf(l, id) == LET hit == SelectSeq(l, LAMBDA n : n.id = id) IN hit[1]

\* a staleness test that takes an element expiring this instant for stale
StaleAtExpiry(p, t) == p.expire <= t

\* v.expire < time.Now().UnixNano()
Stale(p, t) == p.expire < t

\* ---------------------------------------------------------- removeExpired

\* one pass of the loop body on a non-empty list whose front is stale
RemoveFront(c) ==
    LET v == Head(c.list)
    IN  [itemCount |-> c.itemCount - 1,
         items     |-> MapDelete(c.items, v.key),
         list      |-> ListRemove(c.list, v.id)]

\* a removeExpired that looks at the front once, without the loop
removeExpiredOnce(c, e) ==
    IF c.list = <<>> THEN c
    ELSE IF Stale(Head(c.list), e) THEN RemoveFront(c)
    ELSE c

RECURSIVE removeExpired(_, _)
removeExpired(c, e) ==
    IF c.list = <<>> THEN c
    ELSE IF Stale(Head(c.list), e) THEN removeExpired(RemoveFront(c), e)
    ELSE c

\* ----------------------------------------------------------- removeOldest

\* a capacity test that lets one element too many in
OverCapacity(c) == c.itemCount > config.MaxEntryLimit

\* c.itemCount >= c.config.MaxEntryLimit
AtCapacity(c) == c.itemCount >= config.MaxEntryLimit

\* a removeOldest that takes the back of the list
removeNewest(c) ==
    LET v == c.list[Len(c.list)]
    IN  [itemCount |-> c.itemCount - 1,
         items     |-> MapDelete(c.items, v.key),
         list      |-> ListRemove(c.list, v.id)]

\* removeOldest on a non-empty list
removeOldest(c) == RemoveFront(c)

\* removeOldest on an empty list: the count is decremented, then elem.Value
\* on a nil elem panics
removeOldestPanic(c) == [c EXCEPT !.itemCount = c.itemCount - 1]

\* -------------------------------------------------------------------- Set

\* a Set that takes the duration as given, without the default
GivenTTL(d) == d

\* if d == 0 { d = c.config.Expiration }
EffectiveTTL(d) == IF d = 0 THEN config.Expiration ELSE d

\* the state after the sweep of a Set of a new key, the sweep reading the clock at e
AfterSweep(c, e) == removeExpired(c, e)

\* Set panics: capacity eviction is reached with nothing in the list
SetPanics(c, k, e) ==
    /\ k \notin DOMAIN c.items
    /\ AtCapacity(AfterSweep(c, e))
    /\ AfterSweep(c, e).list = <<>>

\* Set evicts the front for capacity
SetEvicts(c, k, e) ==
    /\ k \notin DOMAIN c.items
    /\ AtCapacity(AfterSweep(c, e))
    /\ AfterSweep(c, e).list # <<>>

\* the new-key branch: sweep at e, evict if at capacity, push with expire t + d
SetNew(c, k, x, d, e, t) ==
    LET c1 == AfterSweep(c, e)
        c2 == IF AtCapacity(c1) THEN removeOldest(c1) ELSE c1
        id == NewId(IdsOf(c2.list) \cup RangeOf(c2.items) \cup HeldIds)
    IN  [items     |-> MapPut(c2.items, k, id),
         list      |-> Append(c2.list, Elem(id, x, t + d, k)),
         itemCount |-> c2.itemCount + 1]

\* a present-key branch of Set that leaves the element where it is
SetRefreshStays(c, k) == c

\* the present-key branch
SetRefresh(c, k) == [c EXCEPT !.list = ListMoveToBack(c.list, c.items[k])]

\* a Set that stores the value and a new expire when the key is in the index
SetResultRenews(c, k, x, d, e, t) ==
    IF k \notin DOMAIN c.items
    THEN SetNew(c, k, x, EffectiveTTL(d), e, t)
    ELSE [c EXCEPT !.list = Append(ListRemove(c.list, c.items[k]),
                                   Elem(c.items[k], x, t + EffectiveTTL(d), k))]

\* the state Set(k, x, d) leaves when it does not panic
SetResult(c, k, x, d, e, t) ==
    IF k \notin DOMAIN c.items
    THEN SetNew(c, k, x, EffectiveTTL(d), e, t)
    ELSE SetRefresh(c, k)

\* -------------------------------------------------------------------- Get

\* a stale branch of Get that leaves the element in the list
GetRemoveKeepsElem(c, k) ==
    [itemCount |-> c.itemCount - 1,
     items     |-> MapDelete(c.items, k),
     list      |-> c.list]

\* a stale branch of Get that forgets the count
GetRemoveKeepsCount(c, k) ==
    [itemCount |-> c.itemCount,
     items     |-> MapDelete(c.items, k),
     list      |-> ListRemove(c.list, c.items[k])]

\* the stale branch of Get
GetRemove(c, k) ==
    [itemCount |-> c.itemCount - 1,
     items     |-> MapDelete(c.items, k),
     list      |-> ListRemove(c.list, c.items[k])]

GetStale(c, k, t) == k \in DOMAIN c.items /\ Stale(ElemOf(c.list, c.items[k]), t)

\* a Get that moves the element it finds to the back
GetResultTouches(c, k, t) ==
    IF GetStale(c, k, t) THEN GetRemove(c, k)
    ELSE IF k \in DOMAIN c.items THEN SetRefresh(c, k)
    ELSE c

GetResult(c, k, t) == IF GetStale(c, k, t) THEN GetRemove(c, k) ELSE c

GetFound(c, k, t) == k \in DOMAIN c.items /\ ~GetStale(c, k, t)

GetValue(c, k, t) ==
    IF GetFound(c, k, t) THEN ElemOf(c.list, c.items[k]).Object ELSE Nil

\* -------------------------------------------------------------------- Del

\* a Del that leaves the element in the list
DelRemoveKeepsElem(c, k) ==
    [itemCount |-> c.itemCount - 1,
     items     |-> MapDelete(c.items, k),
     list      |-> c.list]

\* a Del that forgets the count
DelRemoveKeepsCount(c, k) ==
    [itemCount |-> c.itemCount,
     items     |-> MapDelete(c.items, k),
     list      |-> ListRemove(c.list, c.items[k])]

DelRemove(c, k) ==
    [itemCount |-> c.itemCount - 1,
     items     |-> MapDelete(c.items, k),
     list      |-> ListRemove(c.list, c.items[k])]

DelResult(c, k) == IF k \in DOMAIN c.items THEN DelRemove(c, k) ELSE c

\* a Del that reports a removal whatever it found
DelFoundAlways(c, k) == TRUE

DelFound(c, k) == k \in DOMAIN c.items

\* ------------------------------------------------- calls, one after another

\* a call and what it did: its arguments, its result (ok, val), whether the key
\* was in the index when it ran (hit), whether the key's element was stale then
\* (stale) and whether Set ran removeOldest (evict)
Call(op, k, x, d, ok, val, hit, stale, evict) ==
    [op |-> op, k |-> k, x |-> x, d |-> d, ok |-> ok, val |-> val,
     hit |-> hit, stale |-> stale, evict |-> evict]

NoCall(op) == Call(op, Nil, Nil, 0, TRUE, Nil, FALSE, FALSE, FALSE)

\* no Set call is watched
NoWatch == [k |-> Nil, due |-> 0]

\* a goroutine outside any call
NoLocals == [k |-> Nil, x |-> Nil, d |-> 0, e |-> 0, elem |-> Nil, v |-> Nil, tmp |-> 0, ok |-> FALSE]

Install(c) ==
    /\ items' = c.items
    /\ list' = c.list
    /\ itemCount' = c.itemCount

\* New(config)
Init ==
    /\ items = << >>
    /\ list = << >>
    /\ itemCount = 0
    /\ config \in [MaxEntryLimit : 0..MaxLimit, Expiration : 0..MaxExpiration]
    /\ now = 0
    /\ crashed = FALSE
    /\ last = NoCall("New")
    /\ watch = NoWatch
    /\ touch = << >>
    /\ mu = [w |-> Nil, r |-> {}]
    /\ pc = [t \in Threads |-> "idle"]
    /\ loc = [t \in Threads |-> NoLocals]

\* time passes between two calls
Pass ==
    /\ ~crashed
    /\ now < MaxTime
    /\ now' = now + 1
    /\ last' = NoCall("Tick")
    /\ UNCHANGED <<items, list, itemCount, config, crashed, mu, pc, loc>>

\* Set(k, x, d) returning nil; the sweep reads the clock at now, the push at t
SetAt(k, x, d, t) ==
    /\ ~crashed
    /\ ~SetPanics(Cache, k, now)
    /\ t <= MaxTime
    /\ now' = t
    /\ Install(SetResult(Cache, k, x, d, now, t))
    /\ last' = Call("Set", k, x, d, TRUE, Nil, k \in DOMAIN items,
                    GetStale(Cache, k, t), SetEvicts(Cache, k, now))
    /\ UNCHANGED <<config, crashed, mu, pc, loc>>

\* Set(k, x, d) panicking in removeOldest
SetPanicAt(k, x, d) ==
    /\ ~crashed
    /\ SetPanics(Cache, k, now)
    /\ Install(removeOldestPanic(AfterSweep(Cache, now)))
    /\ crashed' = TRUE
    /\ last' = Call("Set", k, x, d, FALSE, Nil, FALSE, FALSE, TRUE)
    /\ UNCHANGED <<config, now, mu, pc, loc>>

\* Get(k)
GetAt(k) ==
    /\ ~crashed
    /\ Install(GetResult(Cache, k, now))
    /\ last' = Call("Get", k, Nil, 0, GetFound(Cache, k, now), GetValue(Cache, k, now),
                    k \in DOMAIN items, GetStale(Cache, k, now), FALSE)
    /\ UNCHANGED <<config, now, crashed, mu, pc, loc>>

\* Del(k)
DelAt(k) ==
    /\ ~crashed
    /\ Install(DelResult(Cache, k))
    /\ last' = Call("Del", k, Nil, 0, DelFound(Cache, k), Nil,
                    k \in DOMAIN items, GetStale(Cache, k, now), FALSE)
    /\ UNCHANGED <<config, now, crashed, mu, pc, loc>>

Tick == Pass /\ UNCHANGED <<watch, touch>>

Set(k, x, d) == \E t \in {now, now + 1} : SetAt(k, x, d, t) /\ UNCHANGED <<watch, touch>>

SetPanic(k, x, d) == SetPanicAt(k, x, d) /\ UNCHANGED <<watch, touch>>

Get(k) == GetAt(k) /\ UNCHANGED <<watch, touch>>

Del(k) == DelAt(k) /\ UNCHANGED <<watch, touch>>

Next ==
    \/ Tick
    \/ \E k \in Keys, x \in Values, d \in TTLs : Set(k, x, d)
    \/ \E k \in Keys, x \in Values, d \in TTLs : SetPanic(k, x, d)
    \/ \E k \in Keys : Get(k)
    \/ \E k \in Keys : Del(k)

Spec == Init /\ [][Next]_vars

\* ----------------------------------- calls one after another, one Set watched

\* Set(k, x, d) pushing or refreshing at t: the call may become the watched one
\* when d > 0; any other Set of the watched key ends the watch
WatchSet(k, d, t) ==
    \/ d > 0 /\ watch' = [k |-> k, due |-> t + d]
    \/ watch' = IF watch.k = k THEN NoWatch ELSE watch

TickWatched == Pass /\ UNCHANGED <<watch, touch>>

SetWatched(k, x, d) ==
    \E t \in {now, now + 1} : SetAt(k, x, d, t) /\ WatchSet(k, d, t) /\ UNCHANGED touch

SetPanicWatched(k, x, d) == SetPanicAt(k, x, d) /\ UNCHANGED <<watch, touch>>

GetWatched(k) == GetAt(k) /\ UNCHANGED <<watch, touch>>

DelWatched(k) == DelAt(k) /\ UNCHANGED <<watch, touch>>

NextWatch ==
    \/ TickWatched
    \/ \E k \in ConcKeys, x \in Values, d \in TTLs : SetWatched(k, x, d)
    \/ \E k \in ConcKeys, x \in Values, d \in TTLs : SetPanicWatched(k, x, d)
    \/ \E k \in ConcKeys : GetWatched(k)
    \/ \E k \in ConcKeys : DelWatched(k)

SpecWatch == Init /\ [][NextWatch]_vars

\* ------------------------- calls one after another, the order of Sets recorded

\* q with k taken out
SeqWithout(q, k) == SelectSeq(q, LAMBDA j : j # k)

\* Set(k, ...) has returned: k is the key Set most recently
Touched(q, k) == Append(SeqWithout(q, k), k)

SetTouched(k, x, d) ==
    \E t \in {now, now + 1} :
        SetAt(k, x, d, t) /\ touch' = Touched(touch, k) /\ UNCHANGED watch

NextTouch ==
    \/ Tick
    \/ \E k \in Keys, x \in Values, d \in TTLs : SetTouched(k, x, d)
    \/ \E k \in Keys, x \in Values, d \in TTLs : SetPanic(k, x, d)
    \/ \E k \in Keys : Get(k)
    \/ \E k \in Keys : Del(k)

SpecTouch == Init /\ [][NextTouch]_vars

\* ------------------------------- calls one after another, every Set with the
\* ------------------------------- default TTL

SetDefault(k, x) ==
    \E t \in {now, now + 1} : SetAt(k, x, 0, t) /\ UNCHANGED <<watch, touch>>

SetPanicDefault(k, x) == SetPanicAt(k, x, 0) /\ UNCHANGED <<watch, touch>>

NextUniform ==
    \/ Tick
    \/ \E k \in Keys, x \in Values : SetDefault(k, x)
    \/ \E k \in Keys, x \in Values : SetPanicDefault(k, x)
    \/ \E k \in Keys : Get(k)
    \/ \E k \in Keys : Del(k)

SpecUniform == Init /\ [][NextUniform]_vars

\* ------------------------------------------- calls of concurrent goroutines

Goto(t, label) == pc' = [pc EXCEPT ![t] = label]

\* c.mu.Lock(): no writer and no reader holds the lock
Lock(t) == mu.w = Nil /\ mu.r = {} /\ mu' = [mu EXCEPT !.w = t]

\* c.mu.Unlock()
Unlock(t) == mu' = [mu EXCEPT !.w = Nil]

\* c.mu.RLock(): no writer holds the lock
RLock(t) == mu.w = Nil /\ mu' = [mu EXCEPT !.r = mu.r \cup {t}]

\* c.mu.RUnlock()
RUnlock(t) == mu' = [mu EXCEPT !.r = mu.r \ {t}]

\* a goroutine calls Set(k, x, d): the default TTL is substituted before the lock
SetCall(t, k, x, d) ==
    /\ ~crashed /\ pc[t] = "idle"
    /\ loc' = [loc EXCEPT ![t] = [NoLocals EXCEPT !.k = k, !.x = x, !.d = EffectiveTTL(d)]]
    /\ Goto(t, "set_lock")
    /\ UNCHANGED <<items, list, itemCount, config, now, crashed, last, watch, touch, mu>>

SetLock(t) ==
    /\ ~crashed /\ pc[t] = "set_lock"
    /\ Lock(t)
    /\ Goto(t, "set_check")
    /\ UNCHANGED <<items, list, itemCount, config, now, crashed, last, watch, touch, loc>>

\* if _, ok := c.items[k]; !ok
SetCheck(t) ==
    /\ ~crashed /\ pc[t] = "set_check"
    /\ Goto(t, IF loc[t].k \in DOMAIN items THEN "set_move" ELSE "set_now")
    /\ UNCHANGED <<items, list, itemCount, config, now, crashed, last, watch, touch, mu, loc>>

\* removeExpired: e := time.Now().UnixNano()
SetNow(t) ==
    /\ ~crashed /\ pc[t] = "set_now"
    /\ loc' = [loc EXCEPT ![t].e = now]
    /\ Goto(t, "set_sweep")
    /\ UNCHANGED <<items, list, itemCount, config, now, crashed, last, watch, touch, mu>>

\* removeExpired: one pass of the loop with a stale front
SetSweep(t) ==
    /\ ~crashed /\ pc[t] = "set_sweep"
    /\ list # <<>> /\ Stale(Head(list), loc[t].e)
    /\ Install(RemoveFront(Cache))
    /\ UNCHANGED <<config, now, crashed, last, watch, touch, mu, pc, loc>>

\* removeExpired: the loop breaks on an empty list or a front that is not stale
SetSweepEnd(t) ==
    /\ ~crashed /\ pc[t] = "set_sweep"
    /\ IF list = <<>> THEN TRUE ELSE ~Stale(Head(list), loc[t].e)
    /\ Goto(t, "set_cap")
    /\ UNCHANGED <<items, list, itemCount, config, now, crashed, last, watch, touch, mu, loc>>

\* if c.itemCount >= c.config.MaxEntryLimit { c.removeOldest() }
SetCap(t) ==
    /\ ~crashed /\ pc[t] = "set_cap"
    /\ ~(AtCapacity(Cache) /\ list = <<>>)
    /\ Install(IF AtCapacity(Cache) THEN removeOldest(Cache) ELSE Cache)
    /\ Goto(t, "set_push")
    /\ UNCHANGED <<config, now, crashed, last, watch, touch, mu, loc>>

\* removeOldest panics on an empty list; the lock stays held
SetCapPanic(t) ==
    /\ ~crashed /\ pc[t] = "set_cap"
    /\ AtCapacity(Cache) /\ list = <<>>
    /\ Install(removeOldestPanic(Cache))
    /\ crashed' = TRUE
    /\ UNCHANGED <<config, now, last, watch, touch, mu, pc, loc>>

\* the pair is built with the clock read now, pushed, indexed and counted
SetPush(t) ==
    /\ ~crashed /\ pc[t] = "set_push"
    /\ LET id == NewId(IdsOf(list) \cup RangeOf(items) \cup HeldIds)
       IN  Install([items     |-> MapPut(items, loc[t].k, id),
                    list      |-> Append(list, Elem(id, loc[t].x, now + loc[t].d, loc[t].k)),
                    itemCount |-> itemCount + 1])
    /\ Goto(t, "set_unlock")
    /\ UNCHANGED <<config, now, crashed, last, watch, touch, mu, loc>>

\* c.list.MoveToBack(c.items[k])
SetMove(t) ==
    /\ ~crashed /\ pc[t] = "set_move"
    /\ Install(SetRefresh(Cache, loc[t].k))
    /\ Goto(t, "set_unlock")
    /\ UNCHANGED <<config, now, crashed, last, watch, touch, mu, loc>>

SetUnlock(t) ==
    /\ ~crashed /\ pc[t] = "set_unlock"
    /\ Unlock(t)
    /\ Goto(t, "idle")
    /\ loc' = [loc EXCEPT ![t] = NoLocals]
    /\ UNCHANGED <<items, list, itemCount, config, now, crashed, last, watch, touch>>

\* a goroutine calls Get(k)
GetCall(t, k) ==
    /\ ~crashed /\ pc[t] = "idle"
    /\ loc' = [loc EXCEPT ![t] = [NoLocals EXCEPT !.k = k]]
    /\ Goto(t, "get_rlock")
    /\ UNCHANGED <<items, list, itemCount, config, now, crashed, last, watch, touch, mu>>

GetRLock(t) ==
    /\ ~crashed /\ pc[t] = "get_rlock"
    /\ RLock(t)
    /\ Goto(t, "get_lookup")
    /\ UNCHANGED <<items, list, itemCount, config, now, crashed, last, watch, touch, loc>>

\* elem, ok := c.items[k]; v := elem.Value.(pair)
GetLookup(t) ==
    /\ ~crashed /\ pc[t] = "get_lookup"
    /\ IF loc[t].k \in DOMAIN items
       THEN /\ loc' = [loc EXCEPT ![t].elem = items[loc[t].k],
                                  ![t].v = ElemOf(list, items[loc[t].k])]
            /\ Goto(t, "get_check")
       ELSE /\ loc' = [loc EXCEPT ![t].ok = FALSE]
            /\ Goto(t, "get_runlock")
    /\ UNCHANGED <<items, list, itemCount, config, now, crashed, last, watch, touch, mu>>

\* if v.expire < time.Now().UnixNano()
GetCheck(t) ==
    /\ ~crashed /\ pc[t] = "get_check"
    /\ IF Stale(loc[t].v, now)
       THEN /\ Goto(t, "get_dec_read")
            /\ UNCHANGED loc
       ELSE /\ loc' = [loc EXCEPT ![t].ok = TRUE]
            /\ Goto(t, "get_runlock")
    /\ UNCHANGED <<items, list, itemCount, config, now, crashed, last, watch, touch, mu>>

\* c.itemCount = c.itemCount - 1: the read
GetDecRead(t) ==
    /\ ~crashed /\ pc[t] = "get_dec_read"
    /\ loc' = [loc EXCEPT ![t].tmp = itemCount]
    /\ Goto(t, "get_dec_write")
    /\ UNCHANGED <<items, list, itemCount, config, now, crashed, last, watch, touch, mu>>

\* c.itemCount = c.itemCount - 1: the write
GetDecWrite(t) ==
    /\ ~crashed /\ pc[t] = "get_dec_write"
    /\ itemCount' = loc[t].tmp - 1
    /\ Goto(t, "get_delete")
    /\ UNCHANGED <<items, list, config, now, crashed, last, watch, touch, mu, loc>>

\* delete(c.items, k)
GetDelete(t) ==
    /\ ~crashed /\ pc[t] = "get_delete"
    /\ items' = MapDelete(items, loc[t].k)
    /\ Goto(t, "get_remove")
    /\ UNCHANGED <<list, itemCount, config, now, crashed, last, watch, touch, mu, loc>>

\* two goroutines write the map at once: the runtime may end the program
\* with "concurrent map writes"
GetDeleteFault(t) ==
    /\ ~crashed /\ pc[t] = "get_delete"
    /\ \E u \in Threads \ {t} : pc[u] = "get_delete"
    /\ crashed' = TRUE
    /\ UNCHANGED <<items, list, itemCount, config, now, last, watch, touch, mu, pc, loc>>

\* c.list.Remove(elem)
GetUnlink(t) ==
    /\ ~crashed /\ pc[t] = "get_remove"
    /\ list' = ListRemove(list, loc[t].elem)
    /\ loc' = [loc EXCEPT ![t].ok = FALSE]
    /\ Goto(t, "get_runlock")
    /\ UNCHANGED <<items, itemCount, config, now, crashed, last, watch, touch, mu>>

\* two goroutines unlink the same element at once: the second may find the
\* element's links already nil and panic, the read lock still held
GetUnlinkFault(t) ==
    /\ ~crashed /\ pc[t] = "get_remove"
    /\ \E u \in Threads \ {t} : pc[u] = "get_remove" /\ loc[u].elem = loc[t].elem
    /\ crashed' = TRUE
    /\ UNCHANGED <<items, list, itemCount, config, now, last, watch, touch, mu, pc, loc>>

\* c.mu.RUnlock() and the return, on each of the three paths
GetRUnlock(t) ==
    /\ ~crashed /\ pc[t] = "get_runlock"
    /\ RUnlock(t)
    /\ Goto(t, "idle")
    /\ loc' = [loc EXCEPT ![t] = NoLocals]
    /\ UNCHANGED <<items, list, itemCount, config, now, crashed, last, watch, touch>>

\* a goroutine calls Del(k)
DelCall(t, k) ==
    /\ ~crashed /\ pc[t] = "idle"
    /\ loc' = [loc EXCEPT ![t] = [NoLocals EXCEPT !.k = k]]
    /\ Goto(t, "del_lock")
    /\ UNCHANGED <<items, list, itemCount, config, now, crashed, last, watch, touch, mu>>

DelLock(t) ==
    /\ ~crashed /\ pc[t] = "del_lock"
    /\ Lock(t)
    /\ Goto(t, "del_lookup")
    /\ UNCHANGED <<items, list, itemCount, config, now, crashed, last, watch, touch, loc>>

\* item, ok := c.items[k]
DelLookup(t) ==
    /\ ~crashed /\ pc[t] = "del_lookup"
    /\ IF loc[t].k \in DOMAIN items
       THEN /\ loc' = [loc EXCEPT ![t].elem = items[loc[t].k], ![t].ok = TRUE]
            /\ Goto(t, "del_remove")
       ELSE /\ loc' = [loc EXCEPT ![t].ok = FALSE]
            /\ Goto(t, "del_unlock")
    /\ UNCHANGED <<items, list, itemCount, config, now, crashed, last, watch, touch, mu>>

\* the count is decremented, the key deleted and the element unlinked
DelApply(t) ==
    /\ ~crashed /\ pc[t] = "del_remove"
    /\ Install([itemCount |-> itemCount - 1,
                items     |-> MapDelete(items, loc[t].k),
                list      |-> ListRemove(list, loc[t].elem)])
    /\ Goto(t, "del_unlock")
    /\ UNCHANGED <<config, now, crashed, last, watch, touch, mu, loc>>

DelUnlock(t) ==
    /\ ~crashed /\ pc[t] = "del_unlock"
    /\ Unlock(t)
    /\ Goto(t, "idle")
    /\ loc' = [loc EXCEPT ![t] = NoLocals]
    /\ UNCHANGED <<items, list, itemCount, config, now, crashed, last, watch, touch>>

\* the clock advances while goroutines run
TickConc ==
    /\ ~crashed
    /\ now < MaxTime
    /\ now' = now + 1
    /\ UNCHANGED <<items, list, itemCount, config, crashed, last, watch, touch, mu, pc, loc>>

NextConc ==
    \/ TickConc
    \/ \E t \in Threads, k \in ConcKeys, x \in ConcValues, d \in ConcTTLs : SetCall(t, k, x, d)
    \/ \E t \in Threads : SetLock(t)
    \/ \E t \in Threads : SetCheck(t)
    \/ \E t \in Threads : SetNow(t)
    \/ \E t \in Threads : SetSweep(t)
    \/ \E t \in Threads : SetSweepEnd(t)
    \/ \E t \in Threads : SetCap(t)
    \/ \E t \in Threads : SetCapPanic(t)
    \/ \E t \in Threads : SetPush(t)
    \/ \E t \in Threads : SetMove(t)
    \/ \E t \in Threads : SetUnlock(t)
    \/ \E t \in Threads, k \in ConcKeys : GetCall(t, k)
    \/ \E t \in Threads : GetRLock(t)
    \/ \E t \in Threads : GetLookup(t)
    \/ \E t \in Threads : GetCheck(t)
    \/ \E t \in Threads : GetDecRead(t)
    \/ \E t \in Threads : GetDecWrite(t)
    \/ \E t \in Threads : GetDelete(t)
    \/ \E t \in Threads : GetDeleteFault(t)
    \/ \E t \in Threads : GetUnlink(t)
    \/ \E t \in Threads : GetUnlinkFault(t)
    \/ \E t \in Threads : GetRUnlock(t)
    \/ \E t \in Threads, k \in ConcKeys : DelCall(t, k)
    \/ \E t \in Threads : DelLock(t)
    \/ \E t \in Threads : DelLookup(t)
    \/ \E t \in Threads : DelApply(t)
    \/ \E t \in Threads : DelUnlock(t)

SpecConc == Init /\ [][NextConc]_vars

\* ---------------------------------------------------------------- claims

\* no call is in progress
Quiescent == \A t \in Threads : pc[t] = "idle"

\* I1: the index and the list hold the same keys, each once, each key's handle
\* being that of its element
I1 ==
    /\ \A k \in DOMAIN items : \E i \in DOMAIN list : list[i].key = k /\ list[i].id = items[k]
    /\ \A i \in DOMAIN list : list[i].key \in DOMAIN items
    /\ \A i, j \in DOMAIN list : list[i].key = list[j].key => i = j

\* I2: the tracked count is the number of elements in the list
I2 == itemCount = Len(list)

\* the elements of l with key k, and the others, in order
WithKey(l, k) == SelectSeq(l, LAMBDA n : n.key = k)
WithoutKey(l, k) == SelectSeq(l, LAMBDA n : n.key # k)
KeysOf(l) == [i \in DOMAIN l |-> l[i].key]

\* no element of the list is stale at time t
NoneStale(l, t) == \A i \in DOMAIN l : l[i].expire >= t

\* C1: a Set(k, v, ttl) with ttl > 0, or ttl = 0 and a default Expiration > 0,
\* followed at once by Get(k) makes that Get return (v, true).
C1_RoundTrip ==
    [][(/\ last.op = "Set" /\ last.ok
        /\ last.d > 0 \/ config.Expiration > 0
        /\ last'.op = "Get" /\ last'.k = last.k)
       => (last'.ok /\ last'.val = last.x)]_vars

\* C2: with MaxEntryLimit >= 1 the list and the index never hold more than
\* MaxEntryLimit entries, and a Set of a new key into a full cache with nothing
\* stale leaves exactly MaxEntryLimit entries.
C2_CapacityCeiling ==
    config.MaxEntryLimit >= 1 =>
        /\ Len(list) <= config.MaxEntryLimit
        /\ Cardinality(DOMAIN items) <= config.MaxEntryLimit
        /\ \A k \in Keys \ DOMAIN items, x \in Values, d \in TTLs :
              (~crashed /\ Len(list) = config.MaxEntryLimit /\ NoneStale(list, now))
              => /\ Len(SetResult(Cache, k, x, d, now, now).list) = config.MaxEntryLimit
                 /\ Cardinality(DOMAIN SetResult(Cache, k, x, d, now, now).items)
                        = config.MaxEntryLimit

\* C2 witness: a Set has just evicted for capacity and the cache is full
C2_Witness ==
    /\ last.op = "Set" /\ last.evict /\ ~crashed
    /\ config.MaxEntryLimit = MaxLimit
    /\ Len(list) = config.MaxEntryLimit
    /\ NoneStale(list, now)

\* C3: whenever no call is in progress among the concurrent goroutines, I1 and
\* I2 hold.
C3_ConcurrentSafety == Quiescent => (I1 /\ I2)

\* C4: a Get(k) later than t + ttl, where Set(k, v, ttl) with ttl > 0 ran at t
\* and no other Set of k ran since, returns not-found.
C4_Expiration ==
    [][(/\ last'.op = "Get"
        /\ watch.k # Nil /\ watch.k = last'.k
        /\ now > watch.due)
       => ~last'.ok]_vars

\* C5: Get(k) at time now returns (value, true) exactly when k is in the index
\* and its element has expire >= now, the value being the element's; otherwise
\* it returns (nil, false).
C5_GetResult ==
    [][(last'.op = "Get") =>
         LET k == last'.k
             fresh == /\ k \in DOMAIN items
                      /\ \E i \in DOMAIN list : list[i].id = items[k] /\ list[i].expire >= now
         IN  /\ last'.ok <=> fresh
             /\ last'.ok => \E i \in DOMAIN list :
                               list[i].id = items[k] /\ last'.val = list[i].Object
             /\ ~last'.ok => last'.val = Nil]_vars

\* C5 witness: a Get has just met a stale element and reported not-found
C5_Witness == last.op = "Get" /\ last.hit /\ last.stale /\ ~last.ok

\* C6: Set(k, x, d) on a key in the index moves k's element to the back and
\* changes nothing else; and with MaxEntryLimit = 2, a full cache and nothing
\* stale, a refresh of k1 followed by a Set of a new key k3 leaves k1 and k3.
C6_RefreshRepositions ==
    [][/\ (last'.op = "Set" /\ last'.ok /\ last'.k \in DOMAIN items)
           => /\ items' = items
              /\ itemCount' = itemCount
              /\ Len(WithKey(list, last'.k)) = 1
              /\ list' = WithoutKey(list, last'.k) \o WithKey(list, last'.k)
       /\ (/\ last.op = "Set" /\ last.hit
           /\ last'.op = "Set" /\ last'.ok /\ last'.k \notin DOMAIN items
           /\ config.MaxEntryLimit = 2 /\ Len(list) = 2 /\ NoneStale(list, now))
           => KeysOf(list') = <<last.k, last'.k>>]_vars

\* C6 witness: a refresh with another value has just moved the front element
\* of a full cache to the back, its value as it was
C6_Witness ==
    /\ last.op = "Set" /\ last.hit /\ last.ok
    /\ Len(list) = 2
    /\ list[2].key = last.k /\ list[2].Object # last.x
    /\ list[2].expire < list[1].expire

\* C7: Del(k) on a key not in the index returns false and changes nothing; on a
\* key in the index it returns true, and a second Del(k) right after returns
\* false.
C7_IdempotentDelete ==
    [][(last'.op = "Del") =>
         /\ (last'.k \notin DOMAIN items)
                => (~last'.ok /\ items' = items /\ list' = list /\ itemCount' = itemCount)
         /\ (last'.k \in DOMAIN items) => last'.ok
         /\ (last.op = "Del" /\ last.k = last'.k /\ last.ok) => ~last'.ok]_vars

\* C7 witness: a Del has just found nothing to remove in a cache that holds
\* other keys
C7_Witness == last.op = "Del" /\ ~last.ok /\ list # <<>>

\* C8: Del(k) on a key in the index returns true, takes exactly k's element out
\* of the index and the list and one off the count, leaving every other
\* element as it was and where it was; k comes back into the index only by a
\* Set(k), and until then Get(k) returns not-found.
C8_DelEffect ==
    [][/\ (last'.op = "Del" /\ last'.k \in DOMAIN items)
           => /\ last'.ok
              /\ items' = [j \in DOMAIN items \ {last'.k} |-> items[j]]
              /\ list' = WithoutKey(list, last'.k)
              /\ Len(list') = Len(list) - 1
              /\ itemCount' = itemCount - 1
       /\ \A k \in Keys : (k \notin DOMAIN items /\ k \in DOMAIN items')
                              => (last'.op = "Set" /\ last'.k = k)
       /\ (last'.op = "Get" /\ last'.k \notin DOMAIN items) => ~last'.ok]_vars

\* C8 witness: a Del has just removed a stale element and left another behind
C8_Witness == last.op = "Del" /\ last.ok /\ last.stale /\ list # <<>>

\* C9: in every state and for every key, value and pair of clock readings,
\* a Set(k, v, 0) that returns leaves the state that Set(k, v, Expiration)
\* leaves.
C9_DefaultTTL ==
    \A k \in Keys, x \in Values, t \in {now, now + 1} :
        (~crashed /\ ~SetPanics(Cache, k, now))
        => SetResult(Cache, k, x, 0, now, t)
               = SetResult(Cache, k, x, config.Expiration, now, t)

\* C9 witness: a Set with d = 0 has just inserted an element that expires the
\* default Expiration > 0 after now
C9_Witness ==
    /\ last.op = "Set" /\ last.d = 0 /\ ~last.hit /\ last.ok
    /\ config.Expiration > 0
    /\ list # <<>>
    /\ list[Len(list)].key = last.k
    /\ list[Len(list)].expire = now + config.Expiration

\* C10: with MaxEntryLimit >= 1 no Set panics, and whenever the state after
\* the sweep is at capacity the list is not empty.
C10_SetNeverFails ==
    config.MaxEntryLimit >= 1 =>
        /\ ~crashed
        /\ LET c1 == removeExpired(Cache, now)
           IN  c1.itemCount >= config.MaxEntryLimit => c1.list # <<>>

\* C10 witness: a Set has just run removeOldest and returned
C10_Witness ==
    /\ last.op = "Set" /\ last.evict /\ last.ok /\ ~crashed
    /\ config.MaxEntryLimit >= 1

\* the shared state a step writes
Written == <<items, list, itemCount>>

\* C11: every step that writes the index, the list or the count is taken
\* while a goroutine holds the lock for writing and none holds it for reading.
C11_NoMutationUnderShared ==
    [][(Written' # Written) => (mu.w # Nil /\ mu.r = {})]_vars

\* C12: with calls one after another, the index and the list hold the same
\* keys, each key once in the list, each handle that of the key's element.
C12_IndexSequenceBijection == I1

\* C12 witness: a Get has just removed the stale element of its key and other
\* elements remain
C12_Witness ==
    /\ last.op = "Get" /\ last.stale /\ ~last.ok
    /\ Len(list) >= 1
    /\ last.k \notin DOMAIN items

\* C13: with MaxEntryLimit >= 1 and calls one after another, itemCount is the
\* length of the list, hence never negative.
C13_CountAccuracy == config.MaxEntryLimit >= 1 => (I2 /\ itemCount >= 0)

\* C13 witness: a Set has just evicted for capacity and pushed, the count
\* going down by one and up by one
C13_Witness ==
    /\ last.op = "Set" /\ last.evict /\ last.ok
    /\ itemCount = 2

\* C14: Get(k) changes the state only when k is in the index with a stale
\* element: it then takes exactly that element out of index and list and one
\* off the count; otherwise index, list order and count are as they were.
C14_GetFrame ==
    [][(last'.op = "Get") =>
         LET k == last'.k
             stale == /\ k \in DOMAIN items
                      /\ \E i \in DOMAIN list : list[i].id = items[k] /\ list[i].expire < now
         IN  /\ stale => /\ items' = [j \in DOMAIN items \ {k} |-> items[j]]
                         /\ list' = WithoutKey(list, k)
                         /\ Len(list') = Len(list) - 1
                         /\ itemCount' = itemCount - 1
             /\ ~stale => /\ items' = items
                          /\ list' = list
                          /\ itemCount' = itemCount]_vars

\* C14 witness: a Get has just found the front element of a full cache, which
\* is still at the front
C14_Witness ==
    /\ last.op = "Get" /\ last.ok
    /\ Len(list) = 2
    /\ list[1].key = last.k

\* the number of elements at the front of l that are stale at t, up to the
\* first that is not
StalePrefix(l, t) ==
    CHOOSE n \in 0..Len(l) :
        /\ \A i \in 1..n : l[i].expire < t
        /\ n = Len(l) \/ l[n + 1].expire >= t

\* l without its first n elements
Drop(l, n) == SubSeq(l, n + 1, Len(l))

\* C15: a Set of a key not in the index removes an element that is not stale
\* only when the count after the sweep is >= MaxEntryLimit; it then removes
\* exactly the front element left by the sweep, stale or not; in both cases
\* the new element is appended at the back.
C15_EvictionVictim ==
    [][(last'.op = "Set" /\ last'.ok /\ last'.k \notin DOMAIN items) =>
         LET n     == StalePrefix(list, now)
             rest  == Drop(list, n)
             atcap == itemCount - n >= config.MaxEntryLimit
             kept  == IF atcap THEN Tail(rest) ELSE rest
             new   == list'[Len(list')]
         IN  /\ atcap => rest # <<>>
             /\ Len(list') = Len(kept) + 1
             /\ SubSeq(list', 1, Len(kept)) = kept
             /\ new.key = last'.k /\ new.Object = last'.x
             /\ items'[last'.k] = new.id
             /\ \A i \in DOMAIN list :
                    (list[i].expire >= now /\ list[i].key \notin DOMAIN items')
                    => (atcap /\ i = n + 1)
             /\ last'.evict <=> atcap]_vars

\* C15 witness: a Set has just evicted the front of a full cache of two and
\* appended its own element, the element left at the front being stale
C15_Witness ==
    /\ last.op = "Set" /\ last.evict /\ last.ok /\ ~last.hit
    /\ config.MaxEntryLimit = 2 /\ Len(list) = 2
    /\ list[2].key = last.k /\ list[2].Object = last.x
    /\ list[1].expire < now

\* the keys of touch that are in the index, in touch's order
TouchedPresent == SelectSeq(touch, LAMBDA j : j \in DOMAIN items)

\* C16: with calls one after another, the keys of the list from front to back
\* are the keys in the index in the order of each key's most recent Set, and a
\* Get or Del leaves the other keys' elements in the order they had.
C16_TouchOrder ==
    /\ [](KeysOf(list) = TouchedPresent)
    /\ [][(last'.op \in {"Get", "Del"}) =>
            WithoutKey(list', last'.k) = WithoutKey(list, last'.k)]_vars

\* C16 witness: a Set has just refreshed a key that was not at the back, two
\* keys are in the list and a third was Set before and is gone
C16_Witness ==
    /\ last.op = "Set" /\ last.hit /\ last.ok
    /\ Len(list) = 2 /\ Len(touch) = 3
    /\ list[2].key = last.k
    /\ touch[1] \notin DOMAIN items

\* the sweep Set runs for a key not in the index leaves nothing stale
SweepComplete ==
    (~crashed /\ config.MaxEntryLimit >= 1) =>
        NoneStale(removeExpired(Cache, now).list, now)

\* front to back, the elements of l expire in ascending order
Ascending(l) == \A i, j \in DOMAIN l : i < j => l[i].expire <= l[j].expire

\* C17: when every Set call passes the same TTL, the list is in ascending
\* expire order in every state, and the sweep of a Set for a new key leaves no
\* stale element in the list.
C17_UniformSweepComplete == Ascending(list) /\ SweepComplete

\* the keys of the first n elements of l
PrefixKeys(l, n) == {l[i].key : i \in 1..n}

\* C18: the sweep removes exactly the longest run of stale elements at the
\* front of the list, each with its key and one off the count; it ends with
\* an empty list or a front that is not stale, removes nothing that is not
\* stale, and leaves what lies behind the first non-stale element, stale or not.
C18_SweepPostcondition ==
    LET c1 == removeExpired(Cache, now)
        n  == StalePrefix(list, now)
    IN  /\ c1.list = Drop(list, n)
        /\ c1.itemCount = itemCount - n
        /\ c1.items = [k \in DOMAIN items \ PrefixKeys(list, n) |-> items[k]]
        /\ c1.list = <<>> \/ c1.list[1].expire >= now
        /\ \A i \in DOMAIN list :
               list[i].expire >= now => \E j \in DOMAIN c1.list : c1.list[j] = list[i]
        /\ \A i \in DOMAIN list :
               i > n => c1.list[i - n] = list[i]

\* C18 witness: a Set of a new key has just evicted a front that was not
\* stale while the element behind it was stale at the sweep; that element is
\* now at the front, where the next sweep takes it
C18_Witness ==
    /\ last.op = "Set" /\ last.ok /\ ~last.hit /\ last.evict
    /\ Len(list) = 2
    /\ list[1].expire < now - 1
    /\ StalePrefix(list, now) = 1
    /\ removeExpired(Cache, now).list = Tail(list)

\* C19: with MaxEntryLimit >= 1 no goroutine is left inside a call that has
\* stopped for good: every call started runs to its return and its unlock.
C19_CallsReturn ==
    config.MaxEntryLimit >= 1 =>
        \A t \in Threads : crashed => pc[t] = "idle" /\ mu.w # t /\ t \notin mu.r

\* k is in the index and its element is not stale
Retrievable(k) == GetFound(Cache, k, now)

\* C20: a Set of a key whose element is stale leaves the key in the index and
\* stale, so that a Get of it then returns not-found and removes it; a key
\* that is not retrievable becomes retrievable only by a Set that finds it
\* absent from the index and inserts it.
C20_StaleNotRevived ==
    [][/\ (last'.op = "Set" /\ last'.ok /\ last'.hit /\ last'.stale) =>
              \E k \in Keys :
                  /\ k = last'.k
                  /\ k \in DOMAIN items'
                  /\ GetStale(Cache, k, now)'
                  /\ ~Retrievable(k)'
                  /\ k \notin DOMAIN (GetResult(Cache, k, now).items)'
       /\ \A k \in Keys :
              (Retrievable(k)' /\ ~Retrievable(k)) =>
                  /\ k \notin DOMAIN items
                  /\ last'.op = "Set" /\ last'.k = k /\ ~last'.hit]_vars

\* C20 witness: a Set with a positive TTL has just found its key stale in the
\* index, and the key is still there and still stale
C20_Witness ==
    /\ last.op = "Set" /\ last.ok /\ last.hit /\ last.stale
    /\ last.d > 0
    /\ last.k \in DOMAIN items
    /\ GetStale(Cache, last.k, now)

====
